---- MODULE Spec2Model ----
(***************************************************************************)
(* Buffer manager (buffer_mgr.c) on top of the page-file storage manager   *)
(* (storage_manager.c).  One buffer pool over one page file.  A page's     *)
(* 4096 bytes are abstracted to one value of Bytes; ZeroPage is the        *)
(* all-zero page.  Every public operation is one atomic action (the code   *)
(* is single-threaded and synchronous).                                    *)
(***************************************************************************)
EXTENDS Integers, Sequences, FiniteSets, TLC

\* ------------------------------------------------------------------ bounds
MaxCap    == 2    \* largest pool capacity (numPages) tried
MaxPage   == 2    \* page numbers 0..MaxPage are requested
MaxTick   == 7    \* pm->tick is capped here (unsigned long long in the code)
MaxFix    == 2    \* fixCount is capped here (int in the code)
MaxWrites == 1    \* numWriteIO is capped here (int in the code)
MaxVal    == 1    \* page contents are 0..MaxVal
MaxHandles == 3   \* SM_FileHandle structs the callers hold
MaxFd     == 3    \* descriptors the process may have open at once (RLIMIT_NOFILE)

\* --------------------------------------------------------------- constants
NO_PAGE    == -1
PAGE_SIZE  == 4096
ZeroPage   == 0
ULLONG_MAX == 2147483647   \* stands for limits.h ULLONG_MAX: above every tick

RC_OK                     == "RC_OK"
RC_FILE_NOT_FOUND         == "RC_FILE_NOT_FOUND"
RC_FILE_HANDLE_NOT_INIT   == "RC_FILE_HANDLE_NOT_INIT"
RC_WRITE_FAILED           == "RC_WRITE_FAILED"
RC_READ_NON_EXISTING_PAGE == "RC_READ_NON_EXISTING_PAGE"

RS_FIFO  == "RS_FIFO"
RS_LRU   == "RS_LRU"
RS_CLOCK == "RS_CLOCK"     \* any strategy other than FIFO/LRU: default branch
Strategies == {RS_FIFO, RS_LRU}

Bytes    == 0..MaxVal
PageArgs == NO_PAGE..MaxPage          \* page numbers a caller may pass
\* I/O faults of the operating system that one call may meet
\*   write : write() of a page fails            (writeBlock)
\*   count : lseek() fails in updatePageCount   (ensureCapacity)
\*   append: write() of a zero page fails       (appendEmptyBlock)
\*   read  : lseek()/read() fails               (readBlock)
\* A failing call transfers no byte: the page or buffer it was about is as before.
Faults   == {"none", "write", "count", "append", "read"}

VARIABLES
    strategy,    \* bm->strategy
    capacity,    \* pm->capacity
    frames,      \* pm->frames : 0..capacity-1 -> Frame
    numReadIO,   \* pm->numReadIO
    numWriteIO,  \* pm->numWriteIO
    tick,        \* pm->tick
    fh,          \* pm->fh : totalNumPages, curPagePos, mgmtInfo (# NULL)
    disk,        \* the page file: sequence of pages, page k at index k+1
    tail,        \* bytes of the file's last page when it is a partial one, else 0
    mgmtData,    \* bm->mgmtData # NULL: the pool is initialised
    memPage,     \* the caller's page buffer of the storage manager's reads
    files,       \* the backing medium: file name -> length in bytes, or NoFile
    fdTable,     \* the process's descriptor table: descriptor -> open file
    g_open_files,\* the registry of open files, head of the list first
    handles      \* the callers' SM_FileHandle structs, one per caller

vars == <<strategy, capacity, frames, numReadIO, numWriteIO, tick, fh, disk, tail,
          mgmtData, memPage, files, fdTable, g_open_files, handles>>

\* the descriptor table, the registry and the callers' handles by name
regVars == <<files, fdTable, g_open_files, handles>>

\* ------------------------------------------- files, descriptors and handles
Names   == {"a", "b"}          \* file names the callers use
Handles == 1..MaxHandles       \* the callers' SM_FileHandle structs
FdNums  == 3..(MaxFd + 2)      \* descriptor numbers open() hands out (0..2 are taken)

NoFile == -1                   \* the length of a file that is not on the medium
NULL   == << >>                \* fHandle->mgmtInfo = NULL; <<fd>> is a box holding fd

\* a slot of the descriptor table that is not open
NoDesc == [open |-> FALSE, name |-> "", owner |-> 0]

\* an SM_FileHandle zeroed by its caller
ZeroedHandle == [fileName |-> "", totalNumPages |-> 0, curPagePos |-> 0,
                 mgmtInfo |-> NULL]

\* no file on the medium, no descriptor open, an empty registry, zeroed handles
RegIdle ==
    /\ files = [n \in Names |-> NoFile]
    /\ fdTable = [d \in FdNums |-> NoDesc]
    /\ g_open_files = << >>
    /\ handles = [h \in Handles |-> ZeroedHandle]

\* ----------------------------------------------------------- storage manager
\* Operators take and return the record pm of the mutable pool/file state:
\*   [frames, numReadIO, numWriteIO, tick, fh, disk, tail]

PM == [frames |-> frames, numReadIO |-> numReadIO, numWriteIO |-> numWriteIO,
       tick |-> tick, fh |-> fh, disk |-> disk, tail |-> tail]

\* the length of the stream in bytes: every page of disk is a whole page, except that
\* the last one holds only `tail` bytes when tail > 0 (it reads as those bytes
\* followed by zeros, which is the value disk keeps for it)
StreamLength(pm) ==
    IF Len(pm.disk) = 0 THEN 0
    ELSE (Len(pm.disk) - 1) * PAGE_SIZE + (IF pm.tail = 0 THEN PAGE_SIZE ELSE pm.tail)

\* the page count updatePageCount derives from the stream length `end`
pagesOfLength(end) ==
    IF end <= 0 THEN 0
    ELSE (end \div PAGE_SIZE) + (IF end % PAGE_SIZE # 0 THEN 1 ELSE 0)

\* updatePageCount: totalNumPages := ceil(length / PAGE_SIZE), 0 for an empty file
updatePageCount(pm) ==
    [pm EXCEPT !.fh.totalNumPages = pagesOfLength(StreamLength(pm))]

\* appendEmptyBlock: seek to the end, write one zero page, refresh the count
appendEmptyBlock(pm, fault) ==
    IF ~pm.fh.mgmtInfo THEN [rc |-> RC_FILE_HANDLE_NOT_INIT, pm |-> pm]
    ELSE IF fault = "append"
    THEN [rc |-> RC_WRITE_FAILED, pm |-> pm]
    ELSE [rc |-> RC_OK,
          pm |-> updatePageCount([pm EXCEPT !.disk = Append(pm.disk, ZeroPage)])]

\* the for-loop of ensureCapacity: `missing` appends, stopping at the first failure;
\* appendNext looks at the result r of one append and goes on
RECURSIVE appendLoop(_, _, _)
RECURSIVE appendNext(_, _, _)
appendNext(r, missing, fault) ==
    IF r.rc # RC_OK THEN r
    ELSE appendLoop(r.pm, missing - 1, fault)

appendLoop(pm, missing, fault) ==
    IF missing <= 0 THEN [rc |-> RC_OK, pm |-> pm]
    ELSE appendNext(appendEmptyBlock(pm, fault), missing, fault)

\* mutant: the page count is refreshed but no page is appended
ensureCapacityNoAppend(pm, numberOfPages, fault) ==
    IF ~pm.fh.mgmtInfo THEN [rc |-> RC_FILE_HANDLE_NOT_INIT, pm |-> pm]
    ELSE [rc |-> RC_OK, pm |-> updatePageCount(pm)]

\* ensureCapacity once the page count is refreshed (state p1)
ensureCapacityCounted(p1, numberOfPages, fault) ==
    IF numberOfPages > p1.fh.totalNumPages
    THEN appendLoop(p1, numberOfPages - p1.fh.totalNumPages, fault)
    ELSE [rc |-> RC_OK, pm |-> p1]

ensureCapacity(pm, numberOfPages, fault) ==
    IF ~pm.fh.mgmtInfo THEN [rc |-> RC_FILE_HANDLE_NOT_INIT, pm |-> pm]
    ELSE IF fault = "count"
    THEN [rc |-> RC_FILE_NOT_FOUND, pm |-> pm]
    ELSE ensureCapacityCounted(updatePageCount(pm), numberOfPages, fault)

\* readBlock: range check against totalNumPages, then read; bytes past the end of
\* the stream read as zeros.  Returns the bytes read in `data`.
readBlock(pm, pageNum, fault) ==
    IF ~pm.fh.mgmtInfo
    THEN [rc |-> RC_FILE_HANDLE_NOT_INIT, pm |-> pm, data |-> ZeroPage]
    ELSE IF pageNum < 0 \/ pageNum >= pm.fh.totalNumPages
    THEN [rc |-> RC_READ_NON_EXISTING_PAGE, pm |-> pm, data |-> ZeroPage]
    ELSE IF fault = "read"
    THEN [rc |-> RC_READ_NON_EXISTING_PAGE, pm |-> pm, data |-> ZeroPage]
    ELSE [rc |-> RC_OK,
          pm |-> [pm EXCEPT !.fh.curPagePos = pageNum],
          data |-> IF pageNum + 1 <= Len(pm.disk) THEN pm.disk[pageNum + 1]
                   ELSE ZeroPage]

\* the bytes of the file after a full page is written at page index k
\* (a write past the end leaves a hole that reads as zeros)
RECURSIVE writeAt(_, _, _)
writeAt(d, k, bytes) ==
    IF k + 1 <= Len(d) THEN [d EXCEPT ![k + 1] = bytes]
    ELSE IF k = Len(d) THEN Append(d, bytes)
    ELSE writeAt(Append(d, ZeroPage), k, bytes)

\* writeBlock: grow first when writing past the end, write the page, set the
\* cursor, refresh the page count
\* the end of writeBlock: w is the state after the write and the recount
writeBlockCounted(w, pageNum) ==
    [rc |-> RC_OK,
     pm |-> IF w.fh.totalNumPages <= pageNum
            THEN [w EXCEPT !.fh.totalNumPages = pageNum + 1]
            ELSE w]

\* writeBlock after the growth step, whose result is g
writeBlockGrown(g, pageNum, bytes, fault) ==
    IF g.rc # RC_OK THEN g
    ELSE IF fault = "write" THEN [rc |-> RC_WRITE_FAILED, pm |-> g.pm]
    ELSE writeBlockCounted(
            updatePageCount(
                [g.pm EXCEPT !.disk = writeAt(g.pm.disk, pageNum, bytes),
                             !.tail = IF pageNum + 1 >= Len(g.pm.disk) THEN 0 ELSE @,
                             !.fh.curPagePos = pageNum]),
            pageNum)

writeBlock(pm, pageNum, bytes, fault) ==
    IF ~pm.fh.mgmtInfo THEN [rc |-> RC_FILE_HANDLE_NOT_INIT, pm |-> pm]
    ELSE IF pageNum < 0 THEN [rc |-> RC_WRITE_FAILED, pm |-> pm]
    ELSE writeBlockGrown(IF pm.fh.totalNumPages <= pageNum
                         THEN ensureCapacity(pm, pageNum + 1, fault)
                         ELSE [rc |-> RC_OK, pm |-> pm],
                         pageNum, bytes, fault)

\* ------------------------------------------------------------ buffer manager
FrameIdx == 0..(capacity - 1)

EmptyFrame == [pageNum |-> NO_PAGE, data |-> ZeroPage, dirty |-> FALSE,
               fixCount |-> 0, seq |-> 0, lru |-> 0]

\* linear scans: the lowest index that matches, -1 when none does
RECURSIVE scanPage(_, _, _, _)
scanPage(fr, cap, i, p) ==
    IF i >= cap THEN -1
    ELSE IF fr[i].pageNum = p THEN i
    ELSE scanPage(fr, cap, i + 1, p)

\* mutant: the scan starts at the second frame
findFrameIndexByPageSkipsFirst(pm, p) == scanPage(pm.frames, capacity, 1, p)

findFrameIndexByPage(pm, p) == scanPage(pm.frames, capacity, 0, p)

\* mutant: empty frames are never looked for
findEmptyFrameIndexNone(pm) == -1

findEmptyFrameIndex(pm) == scanPage(pm.frames, capacity, 0, NO_PAGE)

\* mutant: the pin count is not looked at
evictableIgnoresPin(f) == f.pageNum # NO_PAGE

\* a frame pickVictim may consider
evictable(f) == f.fixCount = 0 /\ f.pageNum # NO_PAGE

\* mutants: one key for every strategy
victimKeyAlwaysLru(f, strat) == f.lru

victimKeyAlwaysSeq(f, strat) == f.seq

victimKey(f, strat) ==
    CASE strat = RS_FIFO -> f.seq
      [] strat = RS_LRU  -> f.lru
      [] OTHER           -> f.lru

RECURSIVE victimLoop(_, _, _, _, _, _)
victimLoop(fr, cap, strat, i, bestKey, victim) ==
    IF i >= cap THEN victim
    ELSE IF ~evictable(fr[i]) THEN victimLoop(fr, cap, strat, i + 1, bestKey, victim)
    ELSE IF victimKey(fr[i], strat) < bestKey
         THEN victimLoop(fr, cap, strat, i + 1, victimKey(fr[i], strat), i)
         ELSE victimLoop(fr, cap, strat, i + 1, bestKey, victim)

RECURSIVE firstFreeLoop(_, _, _)
firstFreeLoop(fr, cap, i) ==
    IF i >= cap THEN -1
    ELSE IF evictable(fr[i]) THEN i
    ELSE firstFreeLoop(fr, cap, i + 1)

\* mutant: frame 0 is returned when no frame can be evicted
pickVictimNeverNone(pm, strat) ==
    LET firstFree == firstFreeLoop(pm.frames, capacity, 0)
    IN  IF firstFree < 0 THEN 0
        ELSE victimLoop(pm.frames, capacity, strat, 0, ULLONG_MAX, firstFree)

pickVictim(pm, strat) ==
    LET firstFree == firstFreeLoop(pm.frames, capacity, 0)
    IN  IF firstFree < 0 THEN -1
        ELSE victimLoop(pm.frames, capacity, strat, 0, ULLONG_MAX, firstFree)

\* mutant: the flag is cleared although the write failed
flushFrameIfDirtyClearsOnFail(pm, fidx, fault) ==
    LET fr == pm.frames[fidx]
    IN  IF fr.pageNum = NO_PAGE \/ ~fr.dirty THEN [rc |-> RC_OK, pm |-> pm]
        ELSE LET w == writeBlock(pm, fr.pageNum, fr.data, fault)
             IN  IF w.rc # RC_OK
                 THEN [rc |-> w.rc, pm |-> [w.pm EXCEPT !.frames[fidx].dirty = FALSE]]
                 ELSE [rc |-> RC_OK,
                       pm |-> [w.pm EXCEPT !.numWriteIO = @ + 1,
                                           !.frames[fidx].dirty = FALSE]]

\* mutant: the flag is cleared and the write counted, but nothing is written
flushFrameIfDirtyNoWrite(pm, fidx, fault) ==
    LET fr == pm.frames[fidx]
    IN  IF fr.pageNum = NO_PAGE \/ ~fr.dirty THEN [rc |-> RC_OK, pm |-> pm]
        ELSE [rc |-> RC_OK,
              pm |-> [pm EXCEPT !.numWriteIO = @ + 1, !.frames[fidx].dirty = FALSE]]

\* flushFrameIfDirty after writeBlock, whose result is w
flushFrameWritten(w, fidx) ==
    IF w.rc # RC_OK THEN w
    ELSE [rc |-> RC_OK,
          pm |-> [w.pm EXCEPT !.numWriteIO = @ + 1, !.frames[fidx].dirty = FALSE]]

\* flushFrameIfDirty: write a dirty occupied frame back and clear its flag
flushFrameIfDirty(pm, fidx, fault) ==
    LET fr == pm.frames[fidx]
    IN  IF fr.pageNum = NO_PAGE THEN [rc |-> RC_OK, pm |-> pm]
        ELSE IF ~fr.dirty THEN [rc |-> RC_OK, pm |-> pm]
        ELSE flushFrameWritten(writeBlock(pm, fr.pageNum, fr.data, fault), fidx)

\* evictIfNeededAndLoad: flush the old page, grow the file, read the new page,
\* reset the frame's metadata
\* evictIfNeededAndLoad step by step: each step gets the result of the one before
\* it (f1 of the flush, c1 of the growth, r1 of the read) and returns it when it failed
loadRead(r1, fidx, pageNum) ==
    IF r1.rc # RC_OK THEN [rc |-> r1.rc, pm |-> r1.pm]
    ELSE [rc |-> RC_OK,
          pm |-> [r1.pm EXCEPT
                    !.numReadIO = @ + 1,
                    !.tick = @ + 1,
                    !.frames[fidx] =
                        [pageNum |-> pageNum, data |-> r1.data,
                         dirty |-> FALSE, fixCount |-> 0,
                         seq |-> r1.pm.tick + 1,
                         lru |-> r1.pm.tick + 1]]]

loadGrown(c1, fidx, pageNum, fault) ==
    IF c1.rc # RC_OK THEN c1
    ELSE loadRead(readBlock(c1.pm, pageNum, fault), fidx, pageNum)

loadFlushed(f1, fidx, pageNum, fault) ==
    IF f1.rc # RC_OK THEN f1
    ELSE loadGrown(IF pageNum >= f1.pm.fh.totalNumPages
                   THEN ensureCapacity(f1.pm, pageNum + 1, fault)
                   ELSE [rc |-> RC_OK, pm |-> f1.pm],
                   fidx, pageNum, fault)

evictIfNeededAndLoad(pm, fidx, pageNum, fault) ==
    loadFlushed(IF pm.frames[fidx].pageNum # NO_PAGE
                THEN flushFrameIfDirty(pm, fidx, fault)
                ELSE [rc |-> RC_OK, pm |-> pm],
                fidx, pageNum, fault)

\* mutant: the tick advances but the frame's last-touch tick is not set
touchForLRUKeepsLru(pm, fidx) == [pm EXCEPT !.tick = @ + 1]

touchForLRU(pm, fidx) ==
    [pm EXCEPT !.tick = @ + 1, !.frames[fidx].lru = pm.tick + 1]

\* the model stays inside the caps on the counters
Bounded(pm) ==
    /\ pm.tick <= MaxTick
    /\ pm.numWriteIO <= MaxWrites
    /\ \A i \in FrameIdx : pm.frames[i].fixCount <= MaxFix

\* store the state a call leaves behind
Commit(pm) ==
    /\ Bounded(pm)
    /\ frames' = pm.frames
    /\ numReadIO' = pm.numReadIO
    /\ numWriteIO' = pm.numWriteIO
    /\ tick' = pm.tick
    /\ fh' = pm.fh
    /\ disk' = pm.disk
    /\ tail' = pm.tail
    /\ UNCHANGED <<strategy, capacity, mgmtData, memPage>>
    /\ UNCHANGED regVars

\* initBufferPool on a page file made by createPageFile (one zero page)
Init ==
    /\ strategy \in Strategies
    /\ capacity \in 1..MaxCap
    /\ frames = [i \in 0..(capacity - 1) |-> EmptyFrame]
    /\ numReadIO = 0
    /\ numWriteIO = 0
    /\ tick = 0
    /\ fh = [totalNumPages |-> 1, curPagePos |-> 0, mgmtInfo |-> TRUE]
    /\ disk = <<ZeroPage>>
    /\ tail = 0
    /\ mgmtData = TRUE
    /\ memPage = ZeroPage
    /\ RegIdle

\* the end of a pin miss: ld is the result of evictIfNeededAndLoad into frame idx,
\* which held page `old` before
pinLoaded(ld, idx, old) ==
    IF ld.rc # RC_OK
    THEN [rc |-> ld.rc, pm |-> ld.pm, evicted |-> NO_PAGE]
    ELSE [rc |-> RC_OK,
          pm |-> touchForLRU([ld.pm EXCEPT !.frames[idx].fixCount = 1], idx),
          evicted |-> old]

\* a pin miss with the frame idx it takes (-1: every frame is pinned)
pinMiss(pm, idx, pageNum, fault) ==
    IF idx < 0
    THEN [rc |-> RC_WRITE_FAILED, pm |-> pm, evicted |-> NO_PAGE]
    ELSE pinLoaded(evictIfNeededAndLoad(pm, idx, pageNum, fault), idx,
                   pm.frames[idx].pageNum)

\* the result of pinPage: return code, state, page evicted (NO_PAGE when none)
pinPageResult(pm, pageNum, fault) ==
    IF ~mgmtData
    THEN [rc |-> RC_FILE_HANDLE_NOT_INIT, pm |-> pm, evicted |-> NO_PAGE]
    ELSE IF pageNum < 0
    THEN [rc |-> RC_READ_NON_EXISTING_PAGE, pm |-> pm, evicted |-> NO_PAGE]
    ELSE
    LET hit == findFrameIndexByPage(pm, pageNum)
    IN  IF hit >= 0
        THEN [rc |-> RC_OK,
              pm |-> touchForLRU([pm EXCEPT !.frames[hit].fixCount = @ + 1], hit),
              evicted |-> NO_PAGE]
        ELSE
        LET empty == findEmptyFrameIndex(pm)
        IN  pinMiss(pm, IF empty < 0 THEN pickVictim(pm, strategy) ELSE empty,
                    pageNum, fault)

pinPage(pageNum, fault) ==
    LET r == pinPageResult(PM, pageNum, fault)
    IN  Commit(r.pm)

\* mutant: the pin count is decremented without the test for > 0
unpinPageResultNoFloor(pm, pageNum) ==
    LET idx == findFrameIndexByPage(pm, pageNum)
    IN  IF idx < 0 THEN [rc |-> RC_READ_NON_EXISTING_PAGE, pm |-> pm]
        ELSE [rc |-> RC_OK, pm |-> [pm EXCEPT !.frames[idx].fixCount = @ - 1]]

unpinPageResult(pm, pageNum) ==
    LET idx == findFrameIndexByPage(pm, pageNum)
    IN  IF ~mgmtData THEN [rc |-> RC_FILE_HANDLE_NOT_INIT, pm |-> pm]
        ELSE IF idx < 0 THEN [rc |-> RC_READ_NON_EXISTING_PAGE, pm |-> pm]
        ELSE IF pm.frames[idx].fixCount > 0
        THEN [rc |-> RC_OK, pm |-> [pm EXCEPT !.frames[idx].fixCount = @ - 1]]
        ELSE [rc |-> RC_OK, pm |-> pm]

unpinPage(pageNum) ==
    LET r == unpinPageResult(PM, pageNum)
    IN  Commit(r.pm)

markDirtyResult(pm, pageNum) ==
    LET idx == findFrameIndexByPage(pm, pageNum)
    IN  IF ~mgmtData THEN [rc |-> RC_FILE_HANDLE_NOT_INIT, pm |-> pm]
        ELSE IF idx < 0 THEN [rc |-> RC_READ_NON_EXISTING_PAGE, pm |-> pm]
        ELSE [rc |-> RC_OK, pm |-> [pm EXCEPT !.frames[idx].dirty = TRUE]]

markDirty(pageNum) ==
    LET r == markDirtyResult(PM, pageNum)
    IN  Commit(r.pm)

\* mutant: a pinned frame is not written
forcePageResultSkipsPinned(pm, pageNum, fault) ==
    LET idx == findFrameIndexByPage(pm, pageNum)
    IN  IF ~mgmtData THEN [rc |-> RC_FILE_HANDLE_NOT_INIT, pm |-> pm]
        ELSE IF idx < 0 THEN [rc |-> RC_READ_NON_EXISTING_PAGE, pm |-> pm]
        ELSE IF pm.frames[idx].fixCount > 0 THEN [rc |-> RC_OK, pm |-> pm]
        ELSE flushFrameIfDirty(pm, idx, fault)

forcePageResult(pm, pageNum, fault) ==
    LET idx == findFrameIndexByPage(pm, pageNum)
    IN  IF ~mgmtData THEN [rc |-> RC_FILE_HANDLE_NOT_INIT, pm |-> pm]
        ELSE IF idx < 0 THEN [rc |-> RC_READ_NON_EXISTING_PAGE, pm |-> pm]
        ELSE flushFrameIfDirty(pm, idx, fault)

forcePage(pageNum, fault) ==
    LET r == forcePageResult(PM, pageNum, fault)
    IN  Commit(r.pm)

\* the loop of forceFlushPool; the write of frame failAt (if any) fails
RECURSIVE flushLoop(_, _, _)
RECURSIVE flushNext(_, _, _)
\* r is the result of the flush of frame i
flushNext(r, i, failAt) ==
    IF r.rc # RC_OK THEN r
    ELSE flushLoop(r.pm, i + 1, failAt)

flushLoop(pm, i, failAt) ==
    IF i >= capacity THEN [rc |-> RC_OK, pm |-> pm]
    ELSE LET fr == pm.frames[i]
         IN  IF fr.pageNum # NO_PAGE /\ fr.dirty /\ fr.fixCount = 0
             THEN flushNext(flushFrameIfDirty(pm, i,
                                IF i = failAt THEN "write" ELSE "none"),
                            i, failAt)
             ELSE flushLoop(pm, i + 1, failAt)

forceFlushPoolResult(pm, failAt) ==
    IF ~mgmtData THEN [rc |-> RC_FILE_HANDLE_NOT_INIT, pm |-> pm]
    ELSE flushLoop(pm, 0, failAt)

forceFlushPool(failAt) ==
    LET r == forceFlushPoolResult(PM, failAt)
    IN  Commit(r.pm)

\* closePageFile: release the descriptor and the handle's mgmtInfo
closePageFile(pm) ==
    IF ~pm.fh.mgmtInfo THEN [rc |-> RC_FILE_HANDLE_NOT_INIT, pm |-> pm]
    ELSE [rc |-> RC_OK, pm |-> [pm EXCEPT !.fh.mgmtInfo = FALSE]]

\* mutant: the frames are released without the flush loop
shutdownBufferPoolResultNoFlush(pm, failAt) ==
    IF ~mgmtData THEN [rc |-> RC_FILE_HANDLE_NOT_INIT, pm |-> pm, released |-> FALSE]
    ELSE LET c == closePageFile(pm)
         IN  [rc |-> c.rc, pm |-> c.pm, released |-> TRUE]

\* the result of shutdownBufferPool: return code, the state after the flush loop and
\* the close, and whether the frames and the pool were released
\* shutdownBufferPool after its flush loop, whose result is f
shutdownFlushed(f) ==
    IF f.rc # RC_OK THEN [rc |-> f.rc, pm |-> f.pm, released |-> FALSE]
    ELSE [rc |-> closePageFile(f.pm).rc, pm |-> closePageFile(f.pm).pm,
          released |-> TRUE]

shutdownBufferPoolResult(pm, failAt) ==
    IF ~mgmtData THEN [rc |-> RC_FILE_HANDLE_NOT_INIT, pm |-> pm, released |-> FALSE]
    ELSE shutdownFlushed(flushLoop(pm, 0, failAt))

\* what is left of the pool's memory once it is freed: no code reads it while
\* bm->mgmtData is NULL, so it is kept as the one value below
FreedHandle == [totalNumPages |-> 0, curPagePos |-> 0, mgmtInfo |-> FALSE]

\* store the state shutdownBufferPool leaves behind, r being its result
ShutdownCommit(r) ==
    IF r.released
    THEN /\ mgmtData' = FALSE
         /\ frames' = [i \in FrameIdx |-> EmptyFrame]
         /\ numReadIO' = 0
         /\ numWriteIO' = 0
         /\ tick' = 0
         /\ fh' = FreedHandle
         /\ disk' = r.pm.disk
         /\ tail' = r.pm.tail
         /\ UNCHANGED <<strategy, capacity, memPage>>
         /\ UNCHANGED regVars
    ELSE Commit(r.pm)

shutdownBufferPool(failAt) == ShutdownCommit(shutdownBufferPoolResult(PM, failAt))

\* the client stores bytes through the handle pinPage gave it
\* (page->data = fr->data + 1), while it still holds a pin on the page
clientWrite(pageNum, bytes) ==
    LET idx == findFrameIndexByPage(PM, pageNum)
    IN  /\ pageNum >= 0
        /\ idx >= 0
        /\ frames[idx].fixCount > 0
        /\ frames[idx].data # bytes
        /\ Commit([PM EXCEPT !.frames[idx].data = bytes])

Next ==
    \/ \E p \in PageArgs, f \in Faults : pinPage(p, f)
    \/ \E p \in PageArgs : unpinPage(p)
    \/ \E p \in PageArgs : markDirty(p)
    \/ \E p \in PageArgs, f \in {"none", "write"} : forcePage(p, f)
    \/ \E k \in -1..(capacity - 1) : forceFlushPool(k)

\* the pool driven by a client that only reads the pages it pins
Spec == Init /\ [][Next]_vars

\* the pool driven by a client that also stores bytes into the pages it pins
InitData == Init /\ strategy = RS_FIFO

NextData ==
    \/ \E p \in PageArgs, f \in Faults : pinPage(p, f)
    \/ \E p \in PageArgs : unpinPage(p)
    \/ \E p \in PageArgs : markDirty(p)
    \/ \E p \in PageArgs, f \in {"none", "write"} : forcePage(p, f)
    \/ \E k \in -1..(capacity - 1) : forceFlushPool(k)
    \/ \E p \in PageArgs, b \in Bytes : clientWrite(p, b)
    \/ \E k \in -1..(capacity - 1) : shutdownBufferPool(k)

SpecData == InitData /\ [][NextData]_vars

\* ------------------------------------------- the storage manager on one handle
\* The page file is used directly through one SM_FileHandle, without a pool
\* (bm->mgmtData = NULL throughout).

MaxStore == MaxPage + 2      \* the file is grown to at most this many pages
StoreArgs == -1..MaxStore    \* page numbers and page counts a caller may pass

\* a handle that is not open (zeroed by the caller, or closed by closePageFile)
ClosedHandle == [totalNumPages |-> 0, curPagePos |-> 0, mgmtInfo |-> FALSE]

\* bytes that createPageFile's write loop gets onto the new file before write()
\* stops: the whole page, or fewer when a write() fails
CreateOutcomes == {0, 1, PAGE_SIZE - 1, PAGE_SIZE}

\* createPageFile: truncate the file, write one zero page; RC_WRITE_FAILED when the
\* page is not written in full (the shorter file stays)
createPageFile(pm, written) ==
    [rc |-> IF written = PAGE_SIZE THEN RC_OK ELSE RC_WRITE_FAILED,
     pm |-> [pm EXCEPT !.disk = IF written = 0 THEN << >> ELSE <<ZeroPage>>,
                       !.tail = IF written = PAGE_SIZE THEN 0 ELSE written]]

\* mutant: the handle is given one page whatever the length of the file
openPageFileOnePage(pm, fault) ==
    IF fault = "count"
    THEN [rc |-> RC_FILE_NOT_FOUND, pm |-> [pm EXCEPT !.fh = ClosedHandle]]
    ELSE [rc |-> RC_OK,
          pm |-> [pm EXCEPT !.fh = [totalNumPages |-> 1, curPagePos |-> 0,
                                    mgmtInfo |-> TRUE]]]

\* openPageFile: cursor 0, page count from the length of the file, at least 1
openPageFile(pm, fault) ==
    IF fault = "count"
    THEN [rc |-> RC_FILE_NOT_FOUND,
          pm |-> [pm EXCEPT !.fh.curPagePos = 0, !.fh.mgmtInfo = FALSE]]
    ELSE LET c == updatePageCount([pm EXCEPT !.fh.curPagePos = 0,
                                             !.fh.mgmtInfo = TRUE])
         IN  [rc |-> RC_OK,
              pm |-> IF c.fh.totalNumPages = 0
                     THEN [c EXCEPT !.fh.totalNumPages = 1]
                     ELSE c]

\* mutant: the page number is not compared with the page count
readIntoNoUpperCheck(pm, buf, pageNum, fault) ==
    IF ~pm.fh.mgmtInfo THEN [rc |-> RC_FILE_HANDLE_NOT_INIT, pm |-> pm, memPage |-> buf]
    ELSE IF pageNum < 0
    THEN [rc |-> RC_READ_NON_EXISTING_PAGE, pm |-> pm, memPage |-> buf]
    ELSE [rc |-> RC_OK,
          pm |-> [pm EXCEPT !.fh.curPagePos = pageNum],
          memPage |-> IF pageNum + 1 <= Len(pm.disk) THEN pm.disk[pageNum + 1]
                      ELSE ZeroPage]

\* readBlock into the caller's buffer buf: the buffer is written only by a read
\* that gets as far as read()
readInto(pm, buf, pageNum, fault) ==
    LET r == readBlock(pm, pageNum, fault)
    IN  [rc |-> r.rc, pm |-> r.pm,
         memPage |-> IF r.rc = RC_OK THEN r.data ELSE buf]

readPreviousBlock(pm, buf, fault) == readInto(pm, buf, pm.fh.curPagePos - 1, fault)

readNextBlock(pm, buf, fault) == readInto(pm, buf, pm.fh.curPagePos + 1, fault)

\* store the state a storage manager call leaves behind
StoreCommit(pm, buf) ==
    /\ Len(pm.disk) <= MaxStore
    /\ fh' = pm.fh
    /\ disk' = pm.disk
    /\ tail' = pm.tail
    /\ memPage' = buf
    /\ UNCHANGED <<strategy, capacity, frames, numReadIO, numWriteIO, tick, mgmtData>>
    /\ UNCHANGED regVars

\* a page file left by createPageFile, and a handle that is not open yet
InitStore ==
    /\ strategy = RS_FIFO
    /\ capacity = 1
    /\ frames = [i \in 0..0 |-> EmptyFrame]
    /\ numReadIO = 0
    /\ numWriteIO = 0
    /\ tick = 0
    /\ mgmtData = FALSE
    /\ memPage = ZeroPage
    /\ RegIdle
    /\ fh = ClosedHandle
    /\ \E written \in CreateOutcomes :
          /\ disk = createPageFile([disk |-> << >>, tail |-> 0], written).pm.disk
          /\ tail = createPageFile([disk |-> << >>, tail |-> 0], written).pm.tail

\* createPageFile is called while no handle is open on the file
callCreatePageFile(written) ==
    /\ ~fh.mgmtInfo
    /\ StoreCommit(createPageFile(PM, written).pm, memPage)

callOpenPageFile(fault) ==
    /\ ~fh.mgmtInfo
    /\ StoreCommit(openPageFile(PM, fault).pm, memPage)

callClosePageFile == StoreCommit(closePageFile(PM).pm, memPage)

callReadBlock(pageNum, fault) ==
    LET r == readInto(PM, memPage, pageNum, fault)
    IN  StoreCommit(r.pm, r.memPage)

callReadPreviousBlock(fault) ==
    LET r == readPreviousBlock(PM, memPage, fault)
    IN  StoreCommit(r.pm, r.memPage)

callReadNextBlock(fault) ==
    LET r == readNextBlock(PM, memPage, fault)
    IN  StoreCommit(r.pm, r.memPage)

callWriteBlock(pageNum, bytes, fault) ==
    StoreCommit(writeBlock(PM, pageNum, bytes, fault).pm, memPage)

callAppendEmptyBlock(fault) == StoreCommit(appendEmptyBlock(PM, fault).pm, memPage)

callEnsureCapacity(numberOfPages, fault) ==
    StoreCommit(ensureCapacity(PM, numberOfPages, fault).pm, memPage)

NextStore ==
    \/ \E written \in CreateOutcomes : callCreatePageFile(written)
    \/ \E f \in {"none", "count"} : callOpenPageFile(f)
    \/ callClosePageFile
    \/ \E k \in StoreArgs, f \in {"none", "read"} : callReadBlock(k, f)
    \/ \E f \in {"none", "read"} : callReadPreviousBlock(f)
    \/ \E f \in {"none", "read"} : callReadNextBlock(f)
    \/ \E k \in StoreArgs, b \in Bytes, f \in Faults : callWriteBlock(k, b, f)
    \/ \E f \in {"none", "append"} : callAppendEmptyBlock(f)
    \/ \E n \in StoreArgs \cup {0}, f \in Faults : callEnsureCapacity(n, f)

SpecStore == InitStore /\ [][NextStore]_vars

\* ------------------------------------- the registry of open files, by name
\* createPageFile, openPageFile, closePageFile and destroyPageFile as they act on
\* the files of the medium, the process's descriptors, the registry g_open_files
\* and the callers' handles.  Several handles may be open at once, on one file or
\* on different files.  A file is its length here: no call below reads a page.

\* the registry and what it refers to
R == [files |-> files, fdTable |-> fdTable, g_open_files |-> g_open_files,
      handles |-> handles]

\* open(): the lowest descriptor number that is not open, -1 when none is left
lowestFreeFd(tab) ==
    IF \A d \in FdNums : tab[d].open THEN -1
    ELSE CHOOSE d \in FdNums :
            /\ ~tab[d].open
            /\ \A e \in FdNums : ~tab[e].open => d <= e

\* close(fd): the slot is released whoever opened it; nothing on a closed one
closeFd(tab, fd) ==
    IF fd \in FdNums THEN [tab EXCEPT ![fd] = NoDesc] ELSE tab

\* addOpenFile: a new node at the head of the list
addOpenFile(reg, name, fd) == <<[name |-> name, fd |-> fd]>> \o reg

\* position of the first node of the list that holds fd, 0 when none does
firstWithFd(reg, fd) ==
    IF \A i \in 1..Len(reg) : reg[i].fd # fd THEN 0
    ELSE CHOOSE i \in 1..Len(reg) :
            /\ reg[i].fd = fd
            /\ \A j \in 1..(i - 1) : reg[j].fd # fd

\* position of the first node of the list with this name, 0 when none has it
firstWithName(reg, name) ==
    IF \A i \in 1..Len(reg) : reg[i].name # name THEN 0
    ELSE CHOOSE i \in 1..Len(reg) :
            /\ reg[i].name = name
            /\ \A j \in 1..(i - 1) : reg[j].name # name

\* the list without its node at position k (the list itself when k = 0)
unlinkNode(reg, k) ==
    IF k = 0 THEN reg ELSE SubSeq(reg, 1, k - 1) \o SubSeq(reg, k + 1, Len(reg))

\* removeOpenFile: unlink the first node that holds fd
removeOpenFile(reg, fd) == unlinkNode(reg, firstWithFd(reg, fd))

\* the descriptor of the node at position k, -1 when k = 0
fdOfNode(reg, k) == IF k = 0 THEN -1 ELSE reg[k].fd

\* getFdByName: the descriptor of the first node with this name, -1 when none
getFdByName(reg, name) == fdOfNode(reg, firstWithName(reg, name))

\* get_fd: the descriptor in the handle's box, -1 for a handle without one
get_fd(handle) == IF handle.mgmtInfo = NULL THEN -1 ELSE handle.mgmtInfo[1]

\* createPageFile(fileName): open with O_CREAT | O_TRUNC, write one zero page, close;
\* the descriptor it uses is released before it returns
createPageFileByName(r, name, written) ==
    IF lowestFreeFd(r.fdTable) < 0 THEN [rc |-> RC_WRITE_FAILED, r |-> r]
    ELSE [rc |-> IF written = PAGE_SIZE THEN RC_OK ELSE RC_WRITE_FAILED,
          r |-> [r EXCEPT !.files[name] = written]]

\* openPageFile(fileName, fHandle) once open() has returned descriptor fd
openPageFileOnFd(r, h, name, fd, fault) ==
    IF fault = "count"
    THEN [rc |-> RC_FILE_NOT_FOUND,
          r |-> [r EXCEPT !.handles[h].fileName = name,
                          !.handles[h].curPagePos = 0,
                          !.handles[h].mgmtInfo = NULL]]
    ELSE [rc |-> RC_OK,
          r |-> [r EXCEPT
                   !.handles[h] =
                       [fileName |-> name,
                        totalNumPages |->
                            IF pagesOfLength(r.files[name]) = 0 THEN 1
                            ELSE pagesOfLength(r.files[name]),
                        curPagePos |-> 0,
                        mgmtInfo |-> <<fd>>],
                   !.fdTable[fd] = [open |-> TRUE, name |-> name, owner |-> h],
                   !.g_open_files = addOpenFile(r.g_open_files, name, fd)]]

\* openPageFile(fileName, fHandle): RC_FILE_NOT_FOUND when open() fails
openPageFileByName(r, h, name, fault) ==
    IF r.files[name] = NoFile \/ lowestFreeFd(r.fdTable) < 0
    THEN [rc |-> RC_FILE_NOT_FOUND, r |-> r]
    ELSE openPageFileOnFd(r, h, name, lowestFreeFd(r.fdTable), fault)

\* close(fd) and removeOpenFile(fd), when fd >= 0
closeAndUnregister(r, fd) ==
    IF fd < 0 THEN r
    ELSE [r EXCEPT !.fdTable = closeFd(r.fdTable, fd),
                   !.g_open_files = removeOpenFile(r.g_open_files, fd)]

\* closePageFile(fHandle): close the descriptor number the handle holds, unlink
\* its node, free the box
closePageFileByHandle(r, h) ==
    IF r.handles[h].mgmtInfo = NULL THEN [rc |-> RC_FILE_HANDLE_NOT_INIT, r |-> r]
    ELSE [rc |-> RC_OK,
          r |-> [closeAndUnregister(r, get_fd(r.handles[h]))
                    EXCEPT !.handles[h].mgmtInfo = NULL]]

\* remove(fileName): the name leaves the medium (descriptors that are open on the
\* file stay open); it fails when there is no such file
removeFile(r, name) ==
    IF r.files[name] = NoFile THEN [rc |-> RC_FILE_NOT_FOUND, r |-> r]
    ELSE [rc |-> RC_OK, r |-> [r EXCEPT !.files[name] = NoFile]]

\* destroyPageFile(fileName): close the descriptor getFdByName finds, then remove
destroyPageFile(r, name) ==
    removeFile(closeAndUnregister(r, getFdByName(r.g_open_files, name)), name)

\* store the state a call leaves behind
RegCommit(r) ==
    /\ files' = r.files
    /\ fdTable' = r.fdTable
    /\ g_open_files' = r.g_open_files
    /\ handles' = r.handles
    /\ UNCHANGED <<strategy, capacity, frames, numReadIO, numWriteIO, tick, fh, disk,
                   tail, mgmtData, memPage>>

\* no file yet, zeroed handles; the pool and the single-file view are not in use
InitReg ==
    /\ strategy = RS_FIFO
    /\ capacity = 1
    /\ frames = [i \in 0..0 |-> EmptyFrame]
    /\ numReadIO = 0
    /\ numWriteIO = 0
    /\ tick = 0
    /\ mgmtData = FALSE
    /\ memPage = ZeroPage
    /\ fh = ClosedHandle
    /\ disk = << >>
    /\ tail = 0
    /\ RegIdle

callCreateByName(name, written) == RegCommit(createPageFileByName(R, name, written).r)

\* a caller opens a file on a handle that it does not hold open
callOpenByName(h, name, fault) ==
    /\ handles[h].mgmtInfo = NULL
    /\ RegCommit(openPageFileByName(R, h, name, fault).r)

callCloseByHandle(h) == RegCommit(closePageFileByHandle(R, h).r)

callDestroyPageFile(name) == RegCommit(destroyPageFile(R, name).r)

NextReg ==
    \/ \E n \in Names, written \in CreateOutcomes : callCreateByName(n, written)
    \/ \E h \in Handles, n \in Names, f \in {"none", "count"} : callOpenByName(h, n, f)
    \/ \E h \in Handles : callCloseByHandle(h)
    \/ \E n \in Names : callDestroyPageFile(n)

SpecReg == InitReg /\ [][NextReg]_vars

\* ------------------------------------------------------------------ properties
Pages == 0..MaxPage

\* page p is held by some frame of pm
Resident(pm, p) == \E i \in FrameIdx : pm.frames[i].pageNum = p

AllPinned(pm) == \A i \in FrameIdx : pm.frames[i].fixCount > 0

NoEmptyFrame(pm) == \A i \in FrameIdx : pm.frames[i].pageNum # NO_PAGE

\* the states one call of the pool's interface can leave behind, from the current state
CallOutcomes ==
    {pinPageResult(PM, p, f).pm : p \in PageArgs, f \in Faults}
    \cup {unpinPageResult(PM, p).pm : p \in PageArgs}
    \cup {markDirtyResult(PM, p).pm : p \in PageArgs}
    \cup {forcePageResult(PM, p, f).pm : p \in PageArgs, f \in {"none", "write"}}
    \cup {flushLoop(PM, 0, k).pm : k \in -1..(capacity - 1)}

\* C1: a frame with pin count > 0 keeps its page across every call of the pool
\* (pin with or without faults, unpin, markDirty, forcePage, forceFlushPool), so the
\* page stays resident in the same frame and no pin of another page reuses it; and
\* the replacement engine never returns a frame with pin count > 0.
C1_PinnedNeverEvicted ==
    /\ \A r \in CallOutcomes : \A i \in FrameIdx :
          (frames[i].fixCount > 0 /\ frames[i].pageNum # NO_PAGE)
              => r.frames[i].pageNum = frames[i].pageNum
    /\ \A st \in {RS_FIFO, RS_LRU, RS_CLOCK} :
          pickVictim(PM, st) >= 0 => frames[pickVictim(PM, st)].fixCount = 0

\* C1 witness: the page loaded first is still pinned and resident after more pages
\* were loaded than the pool has frames (so an eviction passed it by).
C1_Witness ==
    /\ numReadIO > capacity
    /\ \E i \in FrameIdx : frames[i].seq = 1 /\ frames[i].fixCount > 0

\* C2: in every reachable state no two frames hold the same page number, the empty
\* sentinel aside.
C2_PageInAtMostOneFrame ==
    \A i, j \in FrameIdx :
        (i # j /\ frames[i].pageNum # NO_PAGE) => frames[i].pageNum # frames[j].pageNum

\* C2 witness: a pool of two or more frames, all occupied, after evictions and with a
\* dirty page in it.
C2_Witness ==
    /\ capacity >= 2
    /\ NoEmptyFrame(PM)
    /\ numReadIO > capacity
    /\ \E i \in FrameIdx : frames[i].dirty

\* C3: under FIFO, a successful pin of a non-resident page into a full pool replaces
\* an unpinned frame whose arrival tick is the smallest among the unpinned frames;
\* and a pin of a resident page leaves every frame's arrival tick unchanged.
C3_FifoEvictsEarliestLoaded ==
    strategy = RS_FIFO =>
        \A p \in Pages, f \in Faults :
            LET r == pinPageResult(PM, p, f)
            IN  /\ (~Resident(PM, p) /\ NoEmptyFrame(PM) /\ r.rc = RC_OK) =>
                      \E i \in FrameIdx :
                          /\ r.pm.frames[i].pageNum = p
                          /\ r.evicted = frames[i].pageNum
                          /\ frames[i].fixCount = 0
                          /\ \A j \in FrameIdx \ {i} :
                                /\ frames[j].fixCount = 0 => frames[i].seq < frames[j].seq
                                /\ r.pm.frames[j] = frames[j]
                /\ Resident(PM, p) =>
                      /\ r.rc = RC_OK
                      /\ \A j \in FrameIdx :
                            /\ r.pm.frames[j].seq = frames[j].seq
                            /\ r.pm.frames[j].pageNum = frames[j].pageNum

\* C3 witness: FIFO, three loads and one pin hit; the page loaded second was never
\* pinned again (lru 4) and is still resident beside the page of the third load, so
\* the page evicted was the first one, although it was the one pinned again.
C3_Witness ==
    /\ strategy = RS_FIFO
    /\ numReadIO = 3
    /\ tick = 7
    /\ \E i, j \in FrameIdx :
          /\ frames[i].seq = 3 /\ frames[i].lru = 4
          /\ frames[j].seq = 6

\* C4: under LRU, a successful pin of a non-resident page into a full pool replaces
\* an unpinned frame whose last-touch tick is the smallest among the unpinned frames;
\* a successful pin (load or re-pin) gives the page the largest last-touch tick of the
\* pool; unpin changes no tick.
C4_LruEvictsLeastRecentlyPinned ==
    strategy = RS_LRU =>
        /\ \A p \in Pages, f \in Faults :
              LET r == pinPageResult(PM, p, f)
              IN  /\ (~Resident(PM, p) /\ NoEmptyFrame(PM) /\ r.rc = RC_OK) =>
                        \E i \in FrameIdx :
                            /\ r.pm.frames[i].pageNum = p
                            /\ r.evicted = frames[i].pageNum
                            /\ frames[i].fixCount = 0
                            /\ \A j \in FrameIdx \ {i} :
                                  /\ frames[j].fixCount = 0 =>
                                        frames[i].lru < frames[j].lru
                                  /\ r.pm.frames[j] = frames[j]
                  /\ r.rc = RC_OK =>
                        \E i \in FrameIdx :
                            /\ r.pm.frames[i].pageNum = p
                            /\ \A j \in FrameIdx \ {i} :
                                  r.pm.frames[j].pageNum # NO_PAGE =>
                                      r.pm.frames[j].lru < r.pm.frames[i].lru
        /\ \A p \in PageArgs :
              LET u == unpinPageResult(PM, p)
              IN  /\ u.pm.tick = tick
                  /\ \A j \in FrameIdx :
                        /\ u.pm.frames[j].lru = frames[j].lru
                        /\ u.pm.frames[j].seq = frames[j].seq

\* C4 witness: LRU, three loads and one pin hit; the page loaded first was pinned
\* again (lru 5) and is still resident beside the page of the third load, so the page
\* evicted was the second one, although it was loaded later.
C4_Witness ==
    /\ strategy = RS_LRU
    /\ numReadIO = 3
    /\ tick = 7
    /\ \E i, j \in FrameIdx :
          /\ frames[i].seq = 1 /\ frames[i].lru = 5
          /\ frames[j].seq = 6

\* C5: without a Page Store fault, a pin of a non-resident page returns
\* RC_WRITE_FAILED (the code's "pool exhausted") exactly when every frame has pin
\* count > 0, and then nothing changes: frames, counters, tick, file handle, file.
C5_PoolExhaustedIffAllPinned ==
    \A p \in Pages :
        ~Resident(PM, p) =>
            LET r == pinPageResult(PM, p, "none")
            IN  /\ (r.rc = RC_WRITE_FAILED) <=> AllPinned(PM)
                /\ AllPinned(PM) => r.pm = PM
                /\ ~AllPinned(PM) => r.rc = RC_OK

\* C5 witness: every frame of a pool of two or more frames is pinned, one of them
\* dirty, and some page is not resident.
C5_Witness ==
    /\ capacity >= 2
    /\ AllPinned(PM)
    /\ \E i \in FrameIdx : frames[i].dirty
    /\ \E p \in Pages : ~Resident(PM, p)

\* the pages of the file before a call are unchanged after it (the file may have grown)
SamePagesOnDisk(before, after) ==
    /\ Len(after) >= Len(before)
    /\ \A k \in 1..Len(before) : after[k] = before[k]

\* pin the pages s[k], s[k+1], ... one after the other, without faults
RECURSIVE pinAll(_, _, _)
pinAll(pm, s, k) ==
    IF k > Len(s) THEN [ok |-> TRUE, pm |-> pm]
    ELSE LET r == pinPageResult(pm, s[k], "none")
         IN  IF r.rc # RC_OK \/ r.evicted # NO_PAGE THEN [ok |-> FALSE, pm |-> r.pm]
             ELSE pinAll(r.pm, s, k + 1)

\* the sequences of n distinct page numbers
DistinctPages(n) ==
    {s \in [1..n -> Pages] : \A a, b \in 1..n : a # b => s[a] # s[b]}

\* C6: while the pool has an empty frame, a pin of a non-resident page succeeds, loads
\* the page into an empty frame with pin count 1, leaves every occupied frame as it
\* was, evicts nothing and writes nothing back; and pinning `capacity` distinct pages
\* into a pool on which no pin has happened yet leaves all of them resident with pin
\* count 1 and the write counter unchanged.
C6_EmptyFrameBeforeEviction ==
    /\ \A p \in Pages :
          (~Resident(PM, p) /\ ~NoEmptyFrame(PM)) =>
              LET r == pinPageResult(PM, p, "none")
              IN  /\ r.rc = RC_OK
                  /\ r.evicted = NO_PAGE
                  /\ r.pm.numWriteIO = numWriteIO
                  /\ SamePagesOnDisk(disk, r.pm.disk)
                  /\ \A i \in FrameIdx :
                        frames[i].pageNum # NO_PAGE => r.pm.frames[i] = frames[i]
                  /\ \E i \in FrameIdx :
                        /\ frames[i].pageNum = NO_PAGE
                        /\ r.pm.frames[i].pageNum = p
                        /\ r.pm.frames[i].fixCount = 1
    /\ tick = 0 =>
          \A s \in DistinctPages(capacity) :
              LET r == pinAll(PM, s, 1)
              IN  /\ r.ok
                  /\ r.pm.numWriteIO = numWriteIO
                  /\ r.pm.numReadIO = capacity
                  /\ \A k \in 1..capacity : Resident(r.pm, s[k])
                  /\ \A i \in FrameIdx : r.pm.frames[i].fixCount = 1

\* C6 witness: a pool of two or more frames filled by as many loads, each page pinned
\* once, nothing written.
C6_Witness ==
    /\ capacity >= 2
    /\ numReadIO = capacity
    /\ tick = 2 * capacity
    /\ numWriteIO = 0
    /\ \A i \in FrameIdx : frames[i].pageNum # NO_PAGE /\ frames[i].fixCount = 1

\* C7: a pin of a resident page succeeds whatever the Page Store would do, adds 1 to
\* that frame's pin count and gives it a fresh last-touch tick (larger than the old
\* one), and leaves the I/O counters, the frame's page, bytes, arrival tick and dirty
\* flag, the file handle, the file and every other frame unchanged.
C7_PinHitEffect ==
    \A p \in Pages, f \in Faults :
        Resident(PM, p) =>
            LET r == pinPageResult(PM, p, f)
            IN  /\ r.rc = RC_OK
                /\ r.pm.numReadIO = numReadIO
                /\ r.pm.numWriteIO = numWriteIO
                /\ r.pm.fh = fh
                /\ r.pm.disk = disk
                /\ \E i \in FrameIdx :
                      /\ frames[i].pageNum = p
                      /\ r.pm.frames[i].fixCount = frames[i].fixCount + 1
                      /\ r.pm.frames[i].lru = r.pm.tick
                      /\ r.pm.frames[i].lru > frames[i].lru
                      /\ r.pm.frames[i].pageNum = p
                      /\ r.pm.frames[i].data = frames[i].data
                      /\ r.pm.frames[i].dirty = frames[i].dirty
                      /\ r.pm.frames[i].seq = frames[i].seq
                      /\ \A j \in FrameIdx \ {i} : r.pm.frames[j] = frames[j]

\* C7 witness: a dirty page pinned twice at the same time, touched after its load.
C7_Witness ==
    \E i \in FrameIdx :
        /\ frames[i].fixCount = 2
        /\ frames[i].dirty
        /\ frames[i].lru > frames[i].seq + 1

\* C8: unpin of a resident page succeeds; it takes 1 off a pin count > 0 and changes
\* nothing when the count is 0 (so a second unpin at 0 changes nothing either), and
\* it changes nothing else; no pin count is negative in a reachable state.
C8_UnpinFlooredAtZero ==
    /\ \A i \in FrameIdx : frames[i].fixCount >= 0
    /\ \A p \in Pages :
          Resident(PM, p) =>
              LET u == unpinPageResult(PM, p)
              IN  /\ u.rc = RC_OK
                  /\ \E i \in FrameIdx :
                        /\ frames[i].pageNum = p
                        /\ frames[i].fixCount > 0 =>
                              u.pm = [PM EXCEPT !.frames[i].fixCount = @ - 1]
                        /\ frames[i].fixCount = 0 => u.pm = PM
                        /\ u.pm.frames[i].fixCount = 0 =>
                              /\ unpinPageResult(u.pm, p).rc = RC_OK
                              /\ unpinPageResult(u.pm, p).pm = u.pm

\* C8 witness: a resident dirty page whose pin count is back at 0.
C8_Witness ==
    \E i \in FrameIdx :
        /\ frames[i].pageNum # NO_PAGE
        /\ frames[i].fixCount = 0
        /\ frames[i].dirty

\* C9: unpin, markDirty and forcePage with a handle whose page number is held by no
\* frame as a page (never loaded, evicted, or the empty sentinel NO_PAGE) return
\* RC_READ_NON_EXISTING_PAGE ("unknown page") and change nothing.
C9_UnknownPageRejected ==
    \A h \in PageArgs :
        (h = NO_PAGE \/ ~Resident(PM, h)) =>
            /\ unpinPageResult(PM, h) = [rc |-> RC_READ_NON_EXISTING_PAGE, pm |-> PM]
            /\ markDirtyResult(PM, h) = [rc |-> RC_READ_NON_EXISTING_PAGE, pm |-> PM]
            /\ \A f \in {"none", "write"} :
                  forcePageResult(PM, h, f) =
                      [rc |-> RC_READ_NON_EXISTING_PAGE, pm |-> PM]

\* C10: when a successful pin of a non-resident page reuses an occupied frame, a dirty
\* victim costs exactly one write (write counter + 1), after which the victim's page
\* on disk holds the bytes the frame held and the other pages on disk are as before;
\* a clean victim costs no write and leaves every page on disk as before.
C10_DirtyBeforeEvict ==
    \A p \in Pages, f \in Faults :
        LET r == pinPageResult(PM, p, f)
        IN  (~Resident(PM, p) /\ NoEmptyFrame(PM) /\ r.rc = RC_OK) =>
                \E i \in FrameIdx :
                    /\ r.pm.frames[i].pageNum = p
                    /\ r.evicted = frames[i].pageNum
                    /\ Len(disk) >= frames[i].pageNum + 1
                    /\ Len(r.pm.disk) >= Len(disk)
                    /\ IF frames[i].dirty
                       THEN /\ r.pm.numWriteIO = numWriteIO + 1
                            /\ r.pm.disk[frames[i].pageNum + 1] = frames[i].data
                            /\ \A k \in 1..Len(disk) :
                                  k # frames[i].pageNum + 1 => r.pm.disk[k] = disk[k]
                       ELSE /\ r.pm.numWriteIO = numWriteIO
                            /\ SamePagesOnDisk(disk, r.pm.disk)

\* C10 witness: a full pool of two or more frames in which the frame the next pin miss
\* takes is unpinned and dirty with bytes that differ from its page on disk, and the
\* write counter still has room for the write-back.
C10_Witness ==
    /\ capacity >= 2
    /\ NoEmptyFrame(PM)
    /\ numWriteIO < MaxWrites
    /\ tick + 2 <= MaxTick
    /\ \E i \in FrameIdx :
          /\ frames[i].fixCount = 0
          /\ frames[i].dirty
          /\ frames[i].data # disk[frames[i].pageNum + 1]
          /\ \A p \in Pages :
                ~Resident(PM, p) =>
                    pinPageResult(PM, p, "none").evicted = frames[i].pageNum

\* C11: a pin of a non-resident page that fails at a step of the load (write-back of
\* the dirty victim, growth of the file, read of the page) returns that step's code,
\* and leaves every frame's page, bytes, pin count and ticks, the read counter and the
\* pool's tick unchanged, so no frame holds the requested page; a frame that was dirty
\* is clean afterwards only if its write-back was done: the write counter is one up
\* and the page on disk holds the frame's bytes.
C11_FailedPinKeepsFrame ==
    \A p \in Pages, f \in Faults :
        LET r == pinPageResult(PM, p, f)
        IN  (mgmtData /\ ~Resident(PM, p) /\ ~AllPinned(PM) /\ r.rc # RC_OK) =>
                /\ f # "none"
                /\ r.rc = CASE f = "write"  -> RC_WRITE_FAILED
                            [] f = "append" -> RC_WRITE_FAILED
                            [] f = "count"  -> RC_FILE_NOT_FOUND
                            [] OTHER        -> RC_READ_NON_EXISTING_PAGE
                /\ ~Resident(r.pm, p)
                /\ r.pm.numReadIO = numReadIO
                /\ r.pm.tick = tick
                /\ \A i \in FrameIdx :
                      /\ r.pm.frames[i].pageNum = frames[i].pageNum
                      /\ r.pm.frames[i].data = frames[i].data
                      /\ r.pm.frames[i].fixCount = frames[i].fixCount
                      /\ r.pm.frames[i].seq = frames[i].seq
                      /\ r.pm.frames[i].lru = frames[i].lru
                      /\ r.pm.frames[i].dirty => frames[i].dirty
                      /\ (frames[i].dirty /\ ~r.pm.frames[i].dirty) =>
                            /\ r.pm.numWriteIO = numWriteIO + 1
                            /\ r.pm.disk[frames[i].pageNum + 1] = frames[i].data
                /\ (\A i \in FrameIdx : r.pm.frames[i].dirty = frames[i].dirty) =>
                      /\ r.pm.numWriteIO = numWriteIO
                      /\ SamePagesOnDisk(disk, r.pm.disk)

\* C11 witness: a full pool whose next victim is unpinned and dirty with bytes that
\* differ from its page on disk; a pin of a non-resident page fails at the write-back
\* (frame still dirty) and, with the write-back done, at the read (frame clean).
C11_Witness ==
    /\ NoEmptyFrame(PM)
    /\ numWriteIO < MaxWrites
    /\ \E p \in Pages, i \in FrameIdx :
          /\ ~Resident(PM, p)
          /\ frames[i].dirty
          /\ frames[i].data # disk[frames[i].pageNum + 1]
          /\ pinPageResult(PM, p, "write").rc = RC_WRITE_FAILED
          /\ pinPageResult(PM, p, "write").pm.frames[i].dirty
          /\ pinPageResult(PM, p, "read").rc = RC_READ_NON_EXISTING_PAGE
          /\ ~pinPageResult(PM, p, "read").pm.frames[i].dirty

\* the frames forceFlushPool is said to write: pin count 0 and dirty
UnpinnedDirty(pm) == {i \in FrameIdx : pm.frames[i].fixCount = 0 /\ pm.frames[i].dirty}

\* C12: after a forceFlushPool that returned RC_OK, every frame that had pin count 0
\* and was dirty is clean and its page on disk holds its bytes, the write counter is
\* up by the number of those frames, every frame with pin count > 0 keeps its dirty
\* flag and is not written, and pin counts, pages and bytes of all frames are as before.
C12_FlushPoolWritesUnpinnedDirty ==
    \A k \in -1..(capacity - 1) :
        LET r == forceFlushPoolResult(PM, k)
        IN  (mgmtData /\ r.rc = RC_OK) =>
                /\ \A i \in UnpinnedDirty(PM) :
                      /\ ~r.pm.frames[i].dirty
                      /\ frames[i].pageNum # NO_PAGE =>
                            r.pm.disk[frames[i].pageNum + 1] = frames[i].data
                /\ r.pm.numWriteIO = numWriteIO + Cardinality(UnpinnedDirty(PM))
                /\ \A i \in FrameIdx :
                      /\ r.pm.frames[i].fixCount = frames[i].fixCount
                      /\ r.pm.frames[i].pageNum = frames[i].pageNum
                      /\ r.pm.frames[i].data = frames[i].data
                      /\ frames[i].fixCount > 0 =>
                            r.pm.frames[i].dirty = frames[i].dirty
                /\ \A p \in 1..Len(disk) :
                      r.pm.disk[p] # disk[p] =>
                          \E i \in UnpinnedDirty(PM) : frames[i].pageNum = p - 1

\* C13: forcePage on a resident page whose frame is dirty writes the frame's bytes to
\* its page on disk, clears the dirty flag and adds exactly 1 to the write counter,
\* whatever the pin count, and changes nothing else (no other page on disk, no other
\* field, no other frame); when the write fails it returns RC_WRITE_FAILED and changes
\* nothing.  On a clean frame it returns RC_OK and changes nothing at all.
C13_ForcePageWritesDirty ==
    \A p \in Pages, f \in {"none", "write"} :
        (mgmtData /\ Resident(PM, p)) =>
            LET r == forcePageResult(PM, p, f)
                i == findFrameIndexByPage(PM, p)
            IN  IF ~frames[i].dirty
                THEN r = [rc |-> RC_OK, pm |-> PM]
                ELSE IF f = "write"
                THEN r = [rc |-> RC_WRITE_FAILED, pm |-> PM]
                ELSE /\ r.rc = RC_OK
                     /\ r.pm.disk[p + 1] = frames[i].data
                     /\ Len(r.pm.disk) = Len(disk)
                     /\ \A k \in 1..Len(disk) : k # p + 1 => r.pm.disk[k] = disk[k]
                     /\ r.pm.numWriteIO = numWriteIO + 1
                     /\ r.pm.numReadIO = numReadIO
                     /\ r.pm.tick = tick
                     /\ r.pm.frames = [frames EXCEPT ![i].dirty = FALSE]

\* C13 witness: a dirty page with pin count > 0 whose bytes differ from its page on
\* disk, beside a clean resident page, with room in the write counter.
C13_Witness ==
    /\ mgmtData
    /\ numWriteIO < MaxWrites
    /\ \E i, j \in FrameIdx :
          /\ frames[i].pageNum # NO_PAGE
          /\ frames[i].fixCount > 0
          /\ frames[i].dirty
          /\ frames[i].data # disk[frames[i].pageNum + 1]
          /\ frames[j].pageNum # NO_PAGE
          /\ ~frames[j].dirty

\* the occupied frames the flush loops of forceFlushPool and shutdown write
FlushSet(pm) == {i \in UnpinnedDirty(pm) : pm.frames[i].pageNum # NO_PAGE}

\* C14: shutdown of an initialised pool returns RC_OK unless a write it attempts
\* fails, also when frames are still pinned; when it succeeds, every occupied dirty
\* frame with pin count 0 has been written to its page on disk (one write each), no
\* other page on disk has changed (so no frame with pin count > 0 was written), the
\* frames are released and the page file is closed; when a write fails it returns
\* that code and releases nothing.  Once the pool is shut down, pin, unpin, markDirty,
\* forcePage, forceFlushPool and shutdown return RC_FILE_HANDLE_NOT_INIT and change
\* nothing.
C14_ShutdownBestEffort ==
    /\ mgmtData =>
          \A k \in -1..(capacity - 1) :
              LET r == shutdownBufferPoolResult(PM, k)
              IN  /\ (r.rc # RC_OK) <=> (k \in FlushSet(PM))
                  /\ r.rc = RC_OK =>
                        /\ r.released
                        /\ ~r.pm.fh.mgmtInfo
                        /\ r.pm.numWriteIO = numWriteIO + Cardinality(FlushSet(PM))
                        /\ Len(r.pm.disk) = Len(disk)
                        /\ \A i \in FlushSet(PM) :
                              r.pm.disk[frames[i].pageNum + 1] = frames[i].data
                        /\ \A p \in 1..Len(disk) :
                              r.pm.disk[p] # disk[p] =>
                                  \E i \in FlushSet(PM) : frames[i].pageNum = p - 1
                  /\ r.rc # RC_OK =>
                        /\ r.rc = RC_WRITE_FAILED
                        /\ ~r.released
                        /\ r.pm.fh.mgmtInfo
    /\ ~mgmtData =>
          /\ \A p \in PageArgs, f \in Faults :
                /\ pinPageResult(PM, p, f).rc = RC_FILE_HANDLE_NOT_INIT
                /\ pinPageResult(PM, p, f).pm = PM
          /\ \A p \in PageArgs :
                /\ unpinPageResult(PM, p) = [rc |-> RC_FILE_HANDLE_NOT_INIT, pm |-> PM]
                /\ markDirtyResult(PM, p) = [rc |-> RC_FILE_HANDLE_NOT_INIT, pm |-> PM]
                /\ \A f \in {"none", "write"} :
                      forcePageResult(PM, p, f) =
                          [rc |-> RC_FILE_HANDLE_NOT_INIT, pm |-> PM]
          /\ \A k \in -1..(capacity - 1) :
                /\ forceFlushPoolResult(PM, k) =
                      [rc |-> RC_FILE_HANDLE_NOT_INIT, pm |-> PM]
                /\ shutdownBufferPoolResult(PM, k).rc = RC_FILE_HANDLE_NOT_INIT
                /\ ~shutdownBufferPoolResult(PM, k).released

\* C14 witness: shutdown succeeds with one dirty frame still pinned and one dirty
\* frame unpinned, both with bytes that differ from their pages on disk.
C14_Witness ==
    /\ mgmtData
    /\ shutdownBufferPoolResult(PM, -1).rc = RC_OK
    /\ \E i, j \in FrameIdx :
          /\ frames[i].pageNum # NO_PAGE /\ frames[i].fixCount > 0 /\ frames[i].dirty
          /\ frames[i].data # disk[frames[i].pageNum + 1]
          /\ j \in FlushSet(PM)
          /\ frames[j].data # disk[frames[j].pageNum + 1]

\* the parts of C15 that do not concern the pages already on disk: a pin of a page at
\* or beyond the file's page count succeeds when some frame is unpinned and no
\* Page Store call fails, the page count becomes at least pageNum + 1, the page is
\* resident with pin count 1 and all-zero bytes, and the appended pages are all zero
PinBeyondEndGrows(p, r) ==
    /\ r.rc = RC_OK
    /\ r.pm.fh.totalNumPages >= p + 1
    /\ Len(r.pm.disk) >= p + 1
    /\ \A k \in (Len(disk) + 1)..Len(r.pm.disk) : r.pm.disk[k] = ZeroPage
    /\ \E i \in FrameIdx :
          /\ r.pm.frames[i].pageNum = p
          /\ r.pm.frames[i].fixCount = 1
          /\ r.pm.frames[i].data = ZeroPage

\* C15 as stated: a pin of a page number k >= 0 at or beyond the file's page count
\* succeeds (given an unpinned frame), the page count becomes at least k + 1, the
\* page is all zero, and every page that was on disk has the bytes it had.
C15_PinBeyondEndKeepsDisk ==
    \A p \in Pages :
        (mgmtData /\ p >= fh.totalNumPages /\ ~AllPinned(PM)) =>
            LET r == pinPageResult(PM, p, "none")
            IN  /\ PinBeyondEndGrows(p, r)
                /\ SamePagesOnDisk(disk, r.pm.disk)

\* C15 amended: as above, except that when the pin reuses the frame of a dirty victim
\* that victim's page on disk now holds the victim's bytes (its write-back); every
\* other page that was on disk has the bytes it had.
C15_PinBeyondEndKeepsOtherPages ==
    \A p \in Pages :
        (mgmtData /\ p >= fh.totalNumPages /\ ~AllPinned(PM)) =>
            LET r == pinPageResult(PM, p, "none")
            IN  /\ PinBeyondEndGrows(p, r)
                /\ \A k \in 1..Len(disk) :
                      \/ r.pm.disk[k] = disk[k]
                      \/ \E i \in FrameIdx :
                            /\ r.evicted = k - 1
                            /\ frames[i].pageNum = k - 1
                            /\ frames[i].dirty
                            /\ frames[i].fixCount = 0
                            /\ r.pm.disk[k] = frames[i].data

\* C15 witness: a full pool whose next victim is unpinned and dirty with bytes that
\* differ from its page on disk, and a page number beyond the end of the file whose
\* pin takes that frame (two pages are appended for it).
C15_Witness ==
    /\ mgmtData
    /\ NoEmptyFrame(PM)
    /\ numWriteIO < MaxWrites
    /\ tick + 2 <= MaxTick
    /\ \E p \in Pages, i \in FrameIdx :
          /\ p > fh.totalNumPages
          /\ frames[i].dirty
          /\ frames[i].data # disk[frames[i].pageNum + 1]
          /\ pinPageResult(PM, p, "none").rc = RC_OK
          /\ pinPageResult(PM, p, "none").evicted = frames[i].pageNum

StorePages == 0..(MaxStore - 1)

\* close the handle and open the file again
reopen(pm) == openPageFile(closePageFile(pm).pm, "none")

\* C16: on an open handle, for every page index k >= 0 and page content B,
\* writeBlock(k, h, B) returns RC_OK and a readBlock(k, h) after it returns RC_OK and
\* B: directly, after a writeBlock of another page j (before or beyond the end), after
\* closePageFile and openPageFile on the same file, and after both; also when k was
\* at or beyond the end of the file before the write.
C16_WriteReadRoundTrip ==
    fh.mgmtInfo =>
        \A k \in StorePages, B \in Bytes :
            LET w == writeBlock(PM, k, B, "none")
                o == reopen(w.pm)
            IN  /\ w.rc = RC_OK
                /\ readInto(w.pm, memPage, k, "none").rc = RC_OK
                /\ readInto(w.pm, memPage, k, "none").memPage = B
                /\ o.rc = RC_OK
                /\ readInto(o.pm, memPage, k, "none").rc = RC_OK
                /\ readInto(o.pm, memPage, k, "none").memPage = B
                /\ \A j \in StorePages \ {k}, B2 \in Bytes :
                      LET w2 == writeBlock(w.pm, j, B2, "none")
                          o2 == reopen(w2.pm)
                      IN  /\ w2.rc = RC_OK
                          /\ readInto(w2.pm, memPage, k, "none").rc = RC_OK
                          /\ readInto(w2.pm, memPage, k, "none").memPage = B
                          /\ readInto(o2.pm, memPage, k, "none").rc = RC_OK
                          /\ readInto(o2.pm, memPage, k, "none").memPage = B

\* C16 witness: the last page of a file of three or more pages holds bytes other
\* than zeros, every page before it is all zero, and the last page has just been read
\* back into the buffer (cursor on it, buffer equal to it).
C16_Witness ==
    /\ fh.mgmtInfo
    /\ fh.curPagePos >= 2
    /\ Len(disk) = fh.curPagePos + 1
    /\ \A k \in 1..(Len(disk) - 1) : disk[k] = ZeroPage
    /\ disk[Len(disk)] # ZeroPage
    /\ memPage = disk[Len(disk)]

Max(a, b) == IF a >= b THEN a ELSE b

\* C17: on an open handle, ensureCapacity(n, h) returns RC_OK and leaves the page
\* count at max(previous count, n); it appends exactly the missing pages (n minus the
\* previous count, none when that is not positive), all zero, and leaves the pages
\* that were there as they were; a second call with the same or a smaller n changes
\* neither the file nor the handle.
C17_EnsureCapacityMax ==
    fh.mgmtInfo =>
        \A n \in 0..MaxStore :
            LET r == ensureCapacity(PM, n, "none")
            IN  /\ r.rc = RC_OK
                /\ r.pm.fh.totalNumPages = Max(fh.totalNumPages, n)
                /\ Len(r.pm.disk) = Len(disk) + Max(0, n - fh.totalNumPages)
                /\ SamePagesOnDisk(disk, r.pm.disk)
                /\ \A k \in (Len(disk) + 1)..Len(r.pm.disk) : r.pm.disk[k] = ZeroPage
                /\ \A m \in 0..n :
                      ensureCapacity(r.pm, m, "none") = [rc |-> RC_OK, pm |-> r.pm]

\* a read that failed on the page number: RC_READ_NON_EXISTING_PAGE, handle (cursor
\* included) and buffer as before
InvalidPageUnchanged(r) ==
    /\ r.rc = RC_READ_NON_EXISTING_PAGE
    /\ r.pm = PM
    /\ r.memPage = memPage

\* the read claims of C18 for the handle as it is, open or not
ReadRangeChecked ==
    /\ \A k \in StoreArgs, f \in {"none", "read"} :
          LET r == readInto(PM, memPage, k, f)
          IN  /\ (k < 0 \/ k >= fh.totalNumPages) => InvalidPageUnchanged(r)
              /\ r.rc = RC_OK => r.pm.fh.curPagePos = k
    /\ \A f \in {"none", "read"} :
          /\ fh.curPagePos = 0 =>
                InvalidPageUnchanged(readPreviousBlock(PM, memPage, f))
          /\ fh.curPagePos = fh.totalNumPages - 1 =>
                InvalidPageUnchanged(readNextBlock(PM, memPage, f))

C19_EmptyFrameCleanUnpinned ==
    \A i \in FrameIdx :
        frames[i].pageNum = NO_PAGE => (~frames[i].dirty /\ frames[i].fixCount = 0)

\* C20: while the handle is open its page count equals the number of pages the
\* length of the file rounds up to, and at least 1, after every storage manager call;
\* and no call made while the handle stays open lowers the page count.
C20_PageCountCeilAtLeastOne ==
    /\ [](fh.mgmtInfo =>
            fh.totalNumPages = Max(1, pagesOfLength(StreamLength(PM))))
    /\ [][(fh.mgmtInfo /\ fh'.mgmtInfo) => fh'.totalNumPages >= fh.totalNumPages]_vars

\* C21: destroyPageFile closes every live handle to the file before removing it.
\* (a) After a destroyPageFile(name) that returns RC_OK the registry holds no node
\* for name and no descriptor opened for name is open, however many times name was
\* opened.  (b) closePageFile on a handle closes no descriptor that another handle
\* opened: every descriptor open for another handle before the call is open after it.
DestroyLeavesNoDescriptor(name) ==
    destroyPageFile(R, name).rc = RC_OK =>
        /\ \A i \in 1..Len(destroyPageFile(R, name).r.g_open_files) :
              destroyPageFile(R, name).r.g_open_files[i].name # name
        /\ \A d \in FdNums :
              ~(/\ destroyPageFile(R, name).r.fdTable[d].open
                /\ destroyPageFile(R, name).r.fdTable[d].name = name)

CloseKeepsOthersDescriptors(h) ==
    \A d \in FdNums :
        (fdTable[d].open /\ fdTable[d].owner # h)
            => closePageFileByHandle(R, h).r.fdTable[d].open

C21_DestroyClosesEveryHandle ==
    /\ \A n \in Names : DestroyLeavesNoDescriptor(n)
    /\ \A h \in Handles : CloseKeepsOthersDescriptors(h)
====
